---- MODULE Spec2Model ----
(***************************************************************************)
(* A model of the checkers rules engine of src/checkers/internals.py:      *)
(* the Board object (its precomputed geometry tables, its two mutable      *)
(* indexes), the Piece objects it holds, and the public operations         *)
(* add_piece and move with the private helpers they call.  Every operator  *)
(* is translated from the Python source; a Python exception is an outcome  *)
(* of the call, and the state at the raise is the state the call leaves.   *)
(***************************************************************************)
EXTENDS Integers, FiniteSets, Sequences, TLC

\* ------------------------------------------------------------ bounds
\* Board(dim) is constructed with one of the dimensions MinDim..MaxDim.
MinDim == 3
MaxDim == 4
\* Piece objects constructed: Piece(BLACK), Piece(RED), Piece(BLACK), ...
NumPieces == 2
\* The set-up of a game is followed on boards of the dimensions MinDim..MaxBoardDim.
MaxBoardDim == 8

\* ------------------------------------------------------------ constants
\* checkers.py: BOARD_DIM, the dimension of the board the game plays on.
BOARD_DIM == 8
\* Board.__init__: self._neutral_rows.
_neutral_rows == 2

\* ------------------------------------------------------------ values
RED == "red"
BLACK == "black"
players == {BLACK, RED}
opponent == [p \in players |-> IF p = BLACK THEN RED ELSE BLACK]

\* Python's None, as a piece reference, a location and a returned value.
None == <<>>
\* None where winner() returns no player.
NoWinner == "None"
\* piece.board: None or the one Board of the model.
NoBoard == "None"
ThisBoard == "self"

\* The Piece objects: Piece(player) for a valid player, the players in turn.
PieceIds == {<<IF i % 2 = 1 THEN BLACK ELSE RED, i>> : i \in 1..NumPieces}
\* An argument of add_piece that is not an instance of Piece.
NotAPiece == <<"object", 0>>

\* Piece.__init__: the fields of a freshly constructed piece.
Piece(player) ==
    [player |-> player, king |-> FALSE, board |-> NoBoard, location |-> None]

\* Values handed to Piece(...) that are not one of the two players.
InvalidPlayers == {"green", "Black"}

\* ------------------------------------------------------------ geometry
\* Squares of a dim x dim board, usable or not.
Squares(d) == (0..(d - 1)) \X (0..(d - 1))

\* Python's xrange(start, stop, step) for a positive step, as a set.
xrange(start, stop, step) == {i \in start..(stop - 1) : (i - start) % step = 0}

\* Board.__init__: (x, y) for y in xrange(0, dim) for x in xrange((y + 1) % 2, dim, 2).
InitUsablePositions(d) ==
    UNION {{<<x, y>> : x \in xrange((y + 1) % 2, d, 2)} : y \in xrange(0, d, 1)}

\* The locations the operations are called with: every usable square, the
\* unusable corner square (0, 0) and the square (dim, dim) off the board.
Locations(d) == InitUsablePositions(d) \cup {<<0, 0>>, <<d, d>>}

\* The loop headers of _init_moves: (player, mov_off_y, jmp_off_y) and
\* (mov_off_x, jmp_off_x).
PlayerOffsets ==
    {[player |-> BLACK, mov_off_y |-> 1, jmp_off_y |-> 2],
     [player |-> RED, mov_off_y |-> -1, jmp_off_y |-> -2]}
XOffsets == {[mov_off_x |-> -1, jmp_off_x |-> -2], [mov_off_x |-> 1, jmp_off_x |-> 2]}

mov_loc(pos, po, xo) == <<pos[1] + xo.mov_off_x, pos[2] + po.mov_off_y>>
jmp_loc(pos, po, xo) == <<pos[1] + xo.jmp_off_x, pos[2] + po.jmp_off_y>>

\* _moves without the test "if mov_loc in self.usable_positions()".
InitMoves_keeps_every_destination(d) ==
    [player \in players |->
        [pos \in InitUsablePositions(d) |->
            {mov_loc(pos, po, xo) : po \in {o \in PlayerOffsets : o.player = player},
                                    xo \in XOffsets}]]

\* _init_moves: self._moves[player][pos].
InitMoves(d) ==
    [player \in players |->
        [pos \in InitUsablePositions(d) |->
            {mov_loc(pos, po, xo) : po \in {o \in PlayerOffsets : o.player = player},
                                    xo \in XOffsets}
            \cap InitUsablePositions(d)]]

\* _init_moves: self._jumps[player][pos].
InitJumps(d) ==
    [player \in players |->
        [pos \in InitUsablePositions(d) |->
            {jmp_loc(pos, po, xo) : po \in {o \in PlayerOffsets : o.player = player},
                                    xo \in XOffsets}
            \cap InitUsablePositions(d)]]

\* _captures with the jump destination recorded in place of mov_loc.
InitCaptures_records_the_destination(d) ==
    LET entries == {<<pos, po, xo>> \in InitUsablePositions(d) \X PlayerOffsets \X XOffsets :
                        jmp_loc(pos, po, xo) \in InitUsablePositions(d)}
    IN  [k \in {<<e[1], jmp_loc(e[1], e[2], e[3])>> : e \in entries} |-> k[2]]

\* _init_moves: self._captures[(pos, jmp_loc)] = mov_loc, one entry per usable
\* jump destination of either player.
InitCaptures(d) ==
    LET entries == {<<pos, po, xo>> \in InitUsablePositions(d) \X PlayerOffsets \X XOffsets :
                        jmp_loc(pos, po, xo) \in InitUsablePositions(d)}
        keys == {<<e[1], jmp_loc(e[1], e[2], e[3])>> : e \in entries}
    IN  [k \in keys |->
            LET e == CHOOSE e \in entries : e[1] = k[1] /\ jmp_loc(e[1], e[2], e[3]) = k[2]
            IN  mov_loc(e[1], e[2], e[3])]

\* _king_jumps built from BLACK's jumps alone.
InitKingJumps_of_black_only(d) ==
    [pos \in InitUsablePositions(d) |-> InitJumps(d)[BLACK][pos]]

\* _init_moves: the king tables are the unions of the two players' tables.
InitKingMoves(d) ==
    [pos \in InitUsablePositions(d) |-> InitMoves(d)[BLACK][pos] \cup InitMoves(d)[RED][pos]]
InitKingJumps(d) ==
    [pos \in InitUsablePositions(d) |-> InitJumps(d)[BLACK][pos] \cup InitJumps(d)[RED][pos]]

\* ------------------------------------------------------------ state
VARIABLES
    dim,                \* Board.dim
    _usable_positions,  \* Board._usable_positions
    _moves,             \* Board._moves
    _jumps,             \* Board._jumps
    _captures,          \* Board._captures
    _king_moves,        \* Board._king_moves
    _king_jumps,        \* Board._king_jumps
    piece,              \* the Piece objects: player, king, board, location
    _player_pieces,     \* Board._player_pieces: player -> set of pieces
    _loc_pieces,        \* Board._loc_pieces: dict location -> piece
    result,             \* the last call: operation, outcome, returned value
    pieces,             \* Game.pieces: the stationary sprites
    piece_selected,     \* Game.piece_selected: the sprite of the GroupSingle, or None
    space_selected,     \* Game.space_selected: (col, row) of its sprite, or None
    grab,               \* pygame.event.get_grab()
    rect,               \* sprite -> the square its rect is centred on
    loop                \* Game.run: "setup", "running", or how the event loop ended

geometry == <<dim, _usable_positions, _moves, _jumps, _captures, _king_moves, _king_jumps>>
contents == <<piece, _player_pieces, _loc_pieces>>
control == <<pieces, piece_selected, space_selected, grab, rect, loop>>
vars == <<geometry, contents, result, control>>

\* The mutable part of the program state as one value, for the operations below.
Contents == [piece |-> piece, player_pieces |-> _player_pieces, loc_pieces |-> _loc_pieces]

\* What a call leaves: the contents, how it ended ("ok" or the exception's
\* class), and the value it returned.
Outcome(c, outcome, value) == [contents |-> c, outcome |-> outcome, value |-> value]

\* ------------------------------------------------------------ Board methods
\* Piece.__init__: the test of its player argument; the object exists only when
\* the constructor returns.
Piece__init__(c, player) ==
    IF player \notin {BLACK, RED}
    THEN Outcome(c, "ChessException", None)
    ELSE Outcome(c, "ok", None)

\* Board.__getitem__
getitem(c, loc) ==
    IF loc \notin DOMAIN c.loc_pieces THEN None ELSE c.loc_pieces[loc]

\* _valid_placement without the test that the location is usable.
_valid_placement_skips_usable(c, p, location) ==
    getitem(c, location) = None

\* Board._valid_placement
_valid_placement(c, p, location) ==
    location \in _usable_positions /\ getitem(c, location) = None

\* message % args, as the raise statements build their messages: a tuple on the
\* right of % gives one argument per element, and a count that differs from the
\* number of %s conversions raises TypeError instead of giving the message.
FormatRaises(conversions, args) == Len(args) # conversions

\* add_piece that also flips the king flag of the piece it places.
add_piece_toggles_king(c, p, location) ==
    IF p \notin DOMAIN c.piece
    THEN Outcome(c, "ChessException", None)
    ELSE IF ~_valid_placement(c, p, location)
    THEN IF FormatRaises(1, location)
         THEN Outcome(c, "TypeError", None)
         ELSE Outcome(c, "InvalidPlacementException", None)
    ELSE Outcome([c EXCEPT !.piece[p].board = ThisBoard,
                           !.piece[p].location = location,
                           !.piece[p].king = ~@,
                           !.player_pieces[c.piece[p].player] = @ \cup {p}],
                 "ok", None)

\* Board.add_piece; the instances of Piece are the pieces constructed so far;
\* the message of its InvalidPlacementException is
\* 'can not place piece at %s' % location.
add_piece(c, p, location) ==
    IF p \notin DOMAIN c.piece
    THEN Outcome(c, "ChessException", None)
    ELSE IF ~_valid_placement(c, p, location)
    THEN IF FormatRaises(1, location)
         THEN Outcome(c, "TypeError", None)
         ELSE Outcome(c, "InvalidPlacementException", None)
    ELSE Outcome([c EXCEPT !.piece[p].board = ThisBoard,
                           !.piece[p].location = location,
                           !.player_pieces[c.piece[p].player] = @ \cup {p}],
                 "ok", None)

\* dict.pop(key) / dict.pop(key, None) and dict[key] = value on _loc_pieces.
DictPop(d, key) == [k \in (DOMAIN d) \ {key} |-> d[k]]
DictSet(d, key, value) == [k \in (DOMAIN d) \cup {key} |-> IF k = key THEN value ELSE d[k]]

\* Board._valid_move(source, target): True, False, or the exception a lookup
\* raises (a missing _captures key, an attribute of None).
_valid_move(c, source, target) ==
    IF getitem(c, source) = None \/ getitem(c, target) # None
    THEN Outcome(c, "ok", FALSE)
    ELSE LET p == getitem(c, source)
             player == c.piece[p].player
         IN  IF <<source, target>> \notin DOMAIN _captures
             THEN Outcome(c, "KeyError", None)
             ELSE LET capture == _captures[<<source, target>>]
                      moves == IF c.piece[p].king THEN _king_moves ELSE _moves[player]
                      jumps == IF c.piece[p].king THEN _king_jumps ELSE _jumps[player]
                  IN  IF target \in moves[source]
                      THEN Outcome(c, "ok", TRUE)
                      ELSE IF target \in jumps[source]
                      THEN IF getitem(c, capture) = None
                           THEN Outcome(c, "AttributeError", None)
                           ELSE Outcome(c, "ok",
                                    c.piece[getitem(c, capture)].player = opponent[player])
                      ELSE Outcome(c, "ok", FALSE)

\* Board._move_and_capture(source, target): returns the captured piece or None.
_move_and_capture(c, source, target) ==
    LET p == getitem(c, source)
    IN  IF p = None
        THEN Outcome(c, "AttributeError", None)
        ELSE IF <<source, target>> \notin DOMAIN _captures
        THEN Outcome(c, "KeyError", None)
        ELSE
        LET player == c.piece[p].player
            capture == _captures[<<source, target>>]
            jumps == IF c.piece[p].king THEN _king_jumps ELSE _jumps[player]
            captured_piece == getitem(c, capture)
            \* Move piece to target destination (lines 184-186)
            Relocate(b) ==
                [b EXCEPT !.loc_pieces = DictSet(DictPop(b.loc_pieces, source), target, p),
                          !.piece[p].location = target]
        IN  IF target \in jumps[source]
            THEN IF captured_piece = None
                 THEN Outcome(c, "AttributeError", None)
                 ELSE IF captured_piece \notin c.player_pieces[c.piece[captured_piece].player]
                 THEN Outcome(c, "KeyError", None)
                 ELSE Outcome(
                        Relocate([c EXCEPT
                            !.player_pieces[c.piece[captured_piece].player] = @ \ {captured_piece},
                            !.loc_pieces = DictPop(c.loc_pieces, capture),
                            !.piece[captured_piece].location = None]),
                        "ok", captured_piece)
            ELSE Outcome(Relocate(c), "ok", None)

\* A call of the bound method self._valid_move with the arguments args: a call
\* that does not give its two parameters raises TypeError before the body runs.
Call_valid_move(c, args) ==
    IF Len(args) # 2
    THEN Outcome(c, "TypeError", None)
    ELSE _valid_move(c, args[1], args[2])

\* move with the relocation of lines 184-185 run before the validator is called.
move_relocates_before_validating(c, source, target) ==
    LET b == [c EXCEPT !.loc_pieces =
                  DictSet(DictPop(c.loc_pieces, source), target, getitem(c, source))]
        v == Call_valid_move(b, <<>>)
    IN  IF v.outcome # "ok"
        THEN v
        ELSE IF ~v.value
        THEN Outcome(b, "InvalidMoveException", None)
        ELSE _move_and_capture(b, source, target)

\* Board.move(source, target): the validator is called as self._valid_move();
\* the message of its InvalidMoveException is
\* "invalid move from %s to %s" % (source, target).
move(c, source, target) ==
    LET v == Call_valid_move(c, <<>>)
    IN  IF v.outcome # "ok"
        THEN v
        ELSE IF ~v.value
        THEN IF FormatRaises(2, <<source, target>>)
             THEN Outcome(c, "TypeError", None)
             ELSE Outcome(c, "InvalidMoveException", None)
        ELSE _move_and_capture(c, source, target)

\* A Python list built by iterating over a set: every element once, in the
\* order the set yields them.
RECURSIVE ListOf(_)
ListOf(S) ==
    IF S = {}
    THEN <<>>
    ELSE LET x == CHOOSE x \in S : TRUE IN <<x>> \o ListOf(S \ {x})

\* _player_rows with the neutral rows not taken off.
_player_rows_keeps_neutral_rows == dim \div 2

\* Board._player_rows (Python 2: / on integers is floor division)
_player_rows == (dim - _neutral_rows) \div 2

\* Board.start_positions: the list of (player, x, y) tuples.
start_positions ==
    LET black_positions ==
            ListOf({<<BLACK, pos[1], pos[2]>> : pos \in {q \in _usable_positions :
                                                    q[2] < _player_rows}})
        red_positions ==
            ListOf({<<RED, pos[1], pos[2]>> : pos \in {q \in _usable_positions :
                                                  q[2] >= dim - _player_rows}})
    IN  black_positions \o red_positions

\* winner with the tests on the other player's count left out.
winner_ignores_the_other_count(c) ==
    LET num_black == Cardinality(c.player_pieces[BLACK])
        num_red == Cardinality(c.player_pieces[RED])
    IN  IF num_black # 0
        THEN BLACK
        ELSE IF num_red # 0
        THEN RED
        ELSE NoWinner

\* Board.winner
winner(c) ==
    LET num_black == Cardinality(c.player_pieces[BLACK])
        num_red == Cardinality(c.player_pieces[RED])
    IN  IF num_black # 0 /\ ~(num_red # 0)
        THEN BLACK
        ELSE IF num_red # 0 /\ ~(num_black # 0)
        THEN RED
        ELSE NoWinner

\* ------------------------------------------------------------ behaviour
\* Game.__init__: empty groups; run() has not reached its event loop.
InitControl ==
    /\ pieces = {}
    /\ piece_selected = None
    /\ space_selected = None
    /\ grab = FALSE
    /\ rect = <<>>
    /\ loop = "setup"

Init ==
    /\ dim \in MinDim..MaxDim
    /\ _usable_positions = InitUsablePositions(dim)
    /\ _moves = InitMoves(dim)
    /\ _jumps = InitJumps(dim)
    /\ _captures = InitCaptures(dim)
    /\ _king_moves = InitKingMoves(dim)
    /\ _king_jumps = InitKingJumps(dim)
    /\ piece = [p \in PieceIds |-> Piece(p[1])]
    /\ _player_pieces = [pl \in players |-> {}]
    /\ _loc_pieces = <<>>
    /\ result = [op |-> "Board", outcome |-> "ok", value |-> None]
    /\ InitControl

\* A call's effect on the program state.
CommitBoard(op, r) ==
    /\ piece' = r.contents.piece
    /\ _player_pieces' = r.contents.player_pieces
    /\ _loc_pieces' = r.contents.loc_pieces
    /\ result' = [op |-> op, outcome |-> r.outcome, value |-> r.value]
    /\ UNCHANGED geometry

\* A call made on the board directly: the sprites and groups of the game are
\* not involved.
Commit(op, r) == CommitBoard(op, r) /\ UNCHANGED control

AddPiece(p, location) == Commit("add_piece", add_piece(Contents, p, location))

Move(source, target) == Commit("move", move(Contents, source, target))

Winner == Commit("winner", Outcome(Contents, "ok", winner(Contents)))

\* A caller constructs Piece(player) with a value that is not a player.
NewPiece(player) == Commit("Piece", Piece__init__(Contents, player))

Next ==
    \/ \E p \in PieceIds \cup {NotAPiece}, location \in Locations(dim) : AddPiece(p, location)
    \/ \E source \in Locations(dim), target \in Locations(dim) : Move(source, target)
    \/ Winner
    \/ \E player \in InvalidPlayers : NewPiece(player)

Spec == Init /\ [][Next]_vars

\* ------------------------------------------------------------ set-up
\* Game.run, "initializing game pieces", on a Board(dim): no Piece exists yet.
InitSetup ==
    /\ dim \in MinDim..MaxBoardDim
    /\ _usable_positions = InitUsablePositions(dim)
    /\ _moves = InitMoves(dim)
    /\ _jumps = InitJumps(dim)
    /\ _captures = InitCaptures(dim)
    /\ _king_moves = InitKingMoves(dim)
    /\ _king_jumps = InitKingJumps(dim)
    /\ piece = <<>>
    /\ _player_pieces = [pl \in players |-> {}]
    /\ _loc_pieces = <<>>
    /\ result = [op |-> "Board", outcome |-> "ok", value |-> None]
    /\ InitControl

\* The pieces the set-up loop has constructed so far.
NumPlaced == Cardinality(DOMAIN piece)

\* One turn of the loop over start_positions(): new_piece = PieceSprite(player);
\* add_piece(new_piece, (x, y)).
\* new_piece = PieceSprite(player) of the loop's current turn.
new_piece == <<start_positions[NumPlaced + 1][1], NumPlaced + 1>>

\* self.game.add_piece(new_piece, (x, y)) of the loop's current turn.
StartPlacement ==
    LET t == start_positions[NumPlaced + 1]
        constructed ==
            [Contents EXCEPT !.piece =
                [q \in DOMAIN piece \cup {new_piece} |->
                    IF q = new_piece THEN Piece(t[1]) ELSE piece[q]]]
    IN  add_piece(constructed, new_piece, <<t[2], t[3]>>)

PlaceStart ==
    /\ NumPlaced < Len(start_positions)
    /\ Commit("add_piece", StartPlacement)

NextSetup ==
    \/ PlaceStart
    \/ \E source \in Locations(dim), target \in Locations(dim) : Move(source, target)
    \/ Winner

SetupSpec == InitSetup /\ [][NextSetup]_vars

\* ------------------------------------------------------------ scenario
\* The squares named by the scenario on the 8x8 board, (1,1), (2,2), (3,3),
\* (0,2) and (0,0), and the squares beside them on the diagonal through (1,0).
ScenarioSquares ==
    {<<0, 0>>, <<0, 2>>} \cup {<<i, i>> : i \in 1..3}
        \cup {<<i, i - 1>> : i \in 1..3} \cup {<<i - 1, i>> : i \in 1..3}

\* Board(BOARD_DIM), with the pieces of the scenario constructed.
InitScenario ==
    /\ dim = BOARD_DIM
    /\ _usable_positions = InitUsablePositions(dim)
    /\ _moves = InitMoves(dim)
    /\ _jumps = InitJumps(dim)
    /\ _captures = InitCaptures(dim)
    /\ _king_moves = InitKingMoves(dim)
    /\ _king_jumps = InitKingJumps(dim)
    /\ piece = [p \in PieceIds |-> Piece(p[1])]
    /\ _player_pieces = [pl \in players |-> {}]
    /\ _loc_pieces = <<>>
    /\ result = [op |-> "Board", outcome |-> "ok", value |-> None]
    /\ InitControl

NextScenario ==
    \/ \E p \in PieceIds, location \in ScenarioSquares : AddPiece(p, location)
    \/ \E source \in ScenarioSquares, target \in ScenarioSquares : Move(source, target)
    \/ Winner

ScenarioSpec == InitScenario /\ [][NextScenario]_vars

\* ------------------------------------------------------------ game
\* Game.__init__ and the start of Game.run: Board(BOARD_DIM), no sprite yet.
InitGame == InitSetup /\ dim = BOARD_DIM

\* A cursor position that is over no brown space.
OffBoard == <<-1, -1>>
\* Where the cursor can be, by the brown space under it.
CursorPositions == _usable_positions \cup {OffBoard}

\* PieceSprite.update_from_board: the rect is centred on the piece's location.
update_from_board(r, c, p) == [q \in DOMAIN c.piece |-> IF q = p THEN c.piece[p].location ELSE r[q]]

\* run, lines 263-267: one turn of the loop over start_positions(); an exception
\* of add_piece is caught nowhere and ends run.
SetUpPiece ==
    /\ loop = "setup"
    /\ NumPlaced < Len(start_positions)
    /\ LET r == StartPlacement
       IN  /\ CommitBoard("add_piece", r)
           /\ IF r.outcome = "ok"
              THEN /\ rect' = update_from_board(
                                 [q \in DOMAIN r.contents.piece |->
                                     IF q \in DOMAIN rect THEN rect[q] ELSE OffBoard],
                                 r.contents, new_piece)
                   /\ pieces' = pieces \cup {new_piece}
                   /\ UNCHANGED <<piece_selected, space_selected, grab, loop>>
              ELSE /\ loop' = "raised"
                   /\ UNCHANGED <<pieces, piece_selected, space_selected, grab, rect>>

\* run, lines 269-282: the set-up is over and the event loop is entered.
EnterLoop ==
    /\ loop = "setup"
    /\ NumPlaced = Len(start_positions)
    /\ loop' = "running"
    /\ piece_selected' = None
    /\ space_selected' = None
    /\ UNCHANGED <<geometry, contents, result, pieces, grab, rect>>

\* MOUSEBUTTONDOWN at pos with no piece held: _select_piece; the GroupSingle
\* keeps one of the sprites under the cursor.
SelectPiece(pos) ==
    /\ loop = "running"
    /\ ~grab
    /\ \E p \in {q \in pieces : rect[q] = pos} :
          /\ piece_selected' = p
          /\ grab' = TRUE
          /\ pieces' = pieces \ {p}
    /\ UNCHANGED <<geometry, contents, result, space_selected, rect, loop>>

\* An event while the input is grabbed: _drag_piece moves the held sprite to
\* the cursor.
DragPiece(pos) ==
    /\ loop = "running"
    /\ grab
    /\ rect' = [rect EXCEPT ![piece_selected] = pos]
    /\ UNCHANGED <<geometry, contents, result, pieces, piece_selected, space_selected, grab, loop>>

\* MOUSEBUTTONUP at pos while the input is grabbed: _drop_piece. Only
\* InvalidMoveException is caught; any other exception of move leaves
\* _drop_piece and run at line 223.
DropPiece(pos) ==
    /\ loop = "running"
    /\ grab
    /\ grab' = FALSE
    /\ LET p == piece_selected
           space == IF pos \in _usable_positions THEN pos ELSE None
           called == p # None /\ space # None
           r == IF called
                THEN move(Contents, piece[p].location, space)
                ELSE Outcome(Contents, "ok", None)
           caught == r.outcome \in {"ok", "InvalidMoveException"}
           captured == IF r.outcome = "ok" /\ r.value # None THEN {r.value} ELSE {}
       IN  /\ IF called
              THEN CommitBoard("move", r)
              ELSE UNCHANGED <<geometry, contents, result>>
           /\ IF caught
              THEN /\ rect' = update_from_board(rect, r.contents, p)
                   /\ pieces' = (pieces \ captured) \cup {p}
                   /\ piece_selected' = None
                   /\ space_selected' = None
                   /\ UNCHANGED loop
              ELSE /\ loop' = "raised"
                   /\ space_selected' = space
                   /\ UNCHANGED <<pieces, piece_selected, rect>>

\* QUIT: _quit calls sys.exit().
Quit ==
    /\ loop = "running"
    /\ loop' = "quit"
    /\ UNCHANGED <<geometry, contents, result, pieces, piece_selected, space_selected, grab, rect>>

NextGame ==
    \/ SetUpPiece
    \/ EnterLoop
    \/ \E pos \in CursorPositions : SelectPiece(pos)
    \/ \E pos \in CursorPositions : DragPiece(pos)
    \/ \E pos \in CursorPositions : DropPiece(pos)
    \/ Quit

GameSpec == InitGame /\ [][NextGame]_vars

\* ------------------------------------------------------------ queries
\* pieceAt(location): Board.__getitem__ on the current state.
pieceAt(loc) == getitem(Contents, loc)

\* Board.__iter__: the pieces of both players' sets.
LivePieces == UNION {_player_pieces[pl] : pl \in players}

\* The piece p stands on square s: it is in its player's set with that location.
StandsOn(p, s) == p \in _player_pieces[piece[p].player] /\ piece[p].location = s

\* No piece stands on square t, by the index and by the pieces' locations.
Vacant(t) == pieceAt(t) = None /\ \A q \in PieceIds : ~StandsOn(q, t)

\* The tables _valid_move selects for the piece p (lines 154-158).
MoveTable(p) == IF piece[p].king THEN _king_moves ELSE _moves[piece[p].player]
JumpTable(p) == IF piece[p].king THEN _king_jumps ELSE _jumps[piece[p].player]

\* ------------------------------------------------------------ claims
\* C1: a move that does not succeed leaves the whole board state unchanged:
\* both players' piece sets, the location index, and every piece's location
\* and king flag are after the call what they were before it.
C1_FailedMoveChangesNothing ==
    [][(result'.op = "move" /\ result'.outcome # "ok") => UNCHANGED <<contents, geometry>>]_vars

\* C1, its case: a move has failed on a board that holds a piece.
C1_Witness ==
    /\ result.op = "move"
    /\ result.outcome # "ok"
    /\ LivePieces # {}

\* C2 as stated: move(source, target) either succeeds or fails with InvalidMove,
\* and it fails with InvalidMove when source holds no piece, or target is
\* occupied, or target is in neither the move set nor the jump set of the mover.
C2_MoveSucceedsOrRaisesInvalidMove ==
    [][\A source \in Locations(dim), target \in Locations(dim) :
         Move(source, target) =>
            /\ result'.outcome \in {"ok", "InvalidMoveException"}
            /\ (\/ pieceAt(source) = None
                \/ pieceAt(target) # None
                \/ /\ pieceAt(source) # None
                   /\ target \notin MoveTable(pieceAt(source))[source]
                                    \cup JumpTable(pieceAt(source))[source])
               => result'.outcome = "InvalidMoveException"]_vars

\* C3 as stated: for a piece p on source and a vacant target in p's ordinary
\* move set, move(source, target) succeeds and returns None; only p's location
\* changes (to target), no piece leaves a player's set, and the location index
\* changes at source and target only.
C3_OrdinaryMoveRelocatesOnlyTheMover ==
    [][\A p \in PieceIds, target \in Locations(dim) :
         LET source == piece[p].location IN
         (/\ StandsOn(p, source)
          /\ source \in _usable_positions
          /\ \A q \in PieceIds \ {p} : ~StandsOn(q, source)
          /\ Vacant(target)
          /\ target \in MoveTable(p)[source]
          /\ Move(source, target))
         => /\ result'.outcome = "ok"
            /\ result'.value = None
            /\ piece'[p] = [piece[p] EXCEPT !.location = target]
            /\ \A q \in PieceIds \ {p} : piece'[q] = piece[q]
            /\ _player_pieces' = _player_pieces
            /\ pieceAt(source)' = None
            /\ pieceAt(target)' = p
            /\ \A loc \in Locations(dim) \ {source, target} : pieceAt(loc)' = pieceAt(loc)]_vars

\* C4 as stated: a jump of p from source to target over the opponent's piece q
\* on the capture square returns q, takes q out of its player's set and out of
\* the location index and sets its location to None, puts p on target, and
\* leaves every other piece as it was.
C4_JumpRemovesExactlyTheCapturedPiece ==
    [][\A p \in PieceIds, q \in PieceIds, target \in Locations(dim) :
         LET source == piece[p].location IN
         (/\ StandsOn(p, source)
          /\ source \in _usable_positions
          /\ Vacant(target)
          /\ target \in JumpTable(p)[source]
          /\ StandsOn(q, _captures[<<source, target>>])
          /\ piece[q].player = opponent[piece[p].player]
          /\ Move(source, target))
         => /\ result'.outcome = "ok"
            /\ result'.value = q
            /\ _player_pieces' = [_player_pieces EXCEPT ![piece[q].player] = @ \ {q}]
            /\ pieceAt(_captures[<<source, target>>])' = None
            /\ piece'[q] = [piece[q] EXCEPT !.location = None]
            /\ piece'[p] = [piece[p] EXCEPT !.location = target]
            /\ \A o \in PieceIds \ {p, q} : piece'[o] = piece[o]]_vars

\* C5 as stated: for a piece p on source and a vacant target in p's jump set,
\* move(source, target) succeeds exactly when the capture square holds a piece
\* of the opponent; otherwise it fails with InvalidMove and removes no piece.
C5_JumpOnlyOverAnOpponent ==
    [][\A p \in PieceIds, target \in Locations(dim) :
         LET source == piece[p].location
             overOpponent ==
                 \E q \in PieceIds : /\ StandsOn(q, _captures[<<source, target>>])
                                     /\ piece[q].player = opponent[piece[p].player]
         IN
         (/\ StandsOn(p, source)
          /\ source \in _usable_positions
          /\ Vacant(target)
          /\ target \in JumpTable(p)[source]
          /\ Move(source, target))
         => /\ (result'.outcome = "ok") <=> overOpponent
            /\ ~overOpponent => /\ result'.outcome = "InvalidMoveException"
                                /\ _player_pieces' = _player_pieces]_vars

\* C6 as stated: every piece with a location is in the location index at that
\* location and at no other key, is in its own player's set and not in the
\* opponent's; every entry of the index is a piece whose location is the key;
\* no two pieces with a location share a square.
C6_IndexesAgreeWithLocations ==
    /\ \A p \in PieceIds : piece[p].location # None =>
          /\ pieceAt(piece[p].location) = p
          /\ \A loc \in DOMAIN _loc_pieces : _loc_pieces[loc] = p => loc = piece[p].location
          /\ p \in _player_pieces[piece[p].player]
          /\ p \notin _player_pieces[opponent[piece[p].player]]
    /\ \A loc \in DOMAIN _loc_pieces :
          _loc_pieces[loc] \in PieceIds /\ piece[_loc_pieces[loc]].location = loc
    /\ \A p \in PieceIds, q \in PieceIds :
          (p # q /\ piece[p].location # None) => piece[p].location # piece[q].location

\* C7 as stated: add_piece(p, location) fails with InvalidPlacement and changes
\* nothing when location is not usable or a piece placed earlier stands on it;
\* on a usable, unoccupied location it succeeds, sets p's location and puts p
\* in its player's set and in the location index.
C7_AddPiecePlacesOrRaisesInvalidPlacement ==
    [][\A p \in PieceIds, location \in Locations(dim) :
         AddPiece(p, location) =>
            IF location \notin _usable_positions
               \/ \E q \in PieceIds : StandsOn(q, location)
            THEN /\ result'.outcome = "InvalidPlacementException"
                 /\ UNCHANGED contents
            ELSE /\ result'.outcome = "ok"
                 /\ piece'[p].location = location
                 /\ p \in _player_pieces'[piece[p].player]
                 /\ location \in DOMAIN _loc_pieces'
                 /\ _loc_pieces'[location] = p]_vars

\* C8 as stated: right after a successful add_piece(p, location),
\* pieceAt(location) is p; right after a successful move(source, target) of the
\* piece p, pieceAt(source) is None and pieceAt(target) is p.
C8_PlacementAndLookupRoundTrip ==
    [][/\ \A p \in PieceIds, location \in Locations(dim) :
            (AddPiece(p, location) /\ result'.outcome = "ok")
            => pieceAt(location)' = p
       /\ \A p \in PieceIds, target \in Locations(dim) :
            (/\ StandsOn(p, piece[p].location)
             /\ Move(piece[p].location, target)
             /\ result'.outcome = "ok")
            => /\ pieceAt(piece[p].location)' = None
               /\ pieceAt(target)' = p]_vars

\* C9 as stated: the board promotes inside move: a piece that moves onto a
\* vacant square of its ordinary move set in its farthest row is a king after
\* the move, and a successful move to any other row leaves the king flag as it
\* was.
C9_MovePromotesOnTheFarthestRow ==
    [][\A p \in PieceIds, target \in Locations(dim) :
         LET source == piece[p].location
             farthest == IF piece[p].player = RED THEN 0 ELSE dim - 1
         IN
         (/\ StandsOn(p, source)
          /\ source \in _usable_positions
          /\ \A q \in PieceIds \ {p} : ~StandsOn(q, source)
          /\ Vacant(target)
          /\ target \in MoveTable(p)[source]
          /\ Move(source, target))
         => /\ target[2] = farthest => piece'[p].king
            /\ (result'.outcome = "ok" /\ target[2] # farthest)
                   => piece'[p].king = piece[p].king]_vars

\* C10 as stated: a non-king moves or jumps only forward (BLACK to a larger y,
\* RED to a smaller y) and its backward diagonal step or jump fails with
\* InvalidMove; a king's diagonal step to a vacant square of the king move
\* table succeeds in every direction.
C10_TablesFollowPlayerAndKingStatus ==
    [][\A p \in PieceIds, target \in Locations(dim) :
         LET source == piece[p].location
             player == piece[p].player
             backward == _moves[opponent[player]][source] \cup _jumps[opponent[player]][source]
         IN
         (/\ StandsOn(p, source)
          /\ source \in _usable_positions
          /\ \A q \in PieceIds \ {p} : ~StandsOn(q, source)
          /\ Vacant(target)
          /\ Move(source, target))
         => /\ (~piece[p].king /\ result'.outcome = "ok")
                  => IF player = BLACK THEN target[2] > source[2] ELSE target[2] < source[2]
            /\ (~piece[p].king /\ target \in backward)
                  => result'.outcome = "InvalidMoveException"
            /\ (piece[p].king /\ target \in _king_moves[source])
                  => result'.outcome = "ok"]_vars

\* C11: winner() returns None when both players have a piece and when neither
\* has one, BLACK exactly when BLACK has a piece and RED has none, and RED
\* exactly when RED has a piece and BLACK has none.
C11_WinnerIsTheOnlyPlayerWithPieces ==
    result.op = "winner" =>
        LET black == _player_pieces[BLACK] # {}
            red == _player_pieces[RED] # {}
        IN  /\ (black /\ red) => result.value = NoWinner
            /\ (~black /\ ~red) => result.value = NoWinner
            /\ (result.value = BLACK) <=> (black /\ ~red)
            /\ (result.value = RED) <=> (red /\ ~black)

\* C11, its case: winner() has returned BLACK on a board with BLACK pieces only.
C11_Witness ==
    /\ result.op = "winner"
    /\ result.value = BLACK
    /\ _player_pieces[BLACK] # {}
    /\ _player_pieces[RED] = {}

\* C12 as stated: from a position in which both players have a piece, the move
\* that captures the last piece of a player's opponent makes winner() that
\* player, winner() leaves None by no other step, and once winner() is a player
\* no move makes it None or the other player.
C12_LastCaptureFinishesTheGame ==
    [][/\ \A p \in PieceIds, q \in PieceIds, target \in Locations(dim) :
            LET source == piece[p].location IN
            (/\ StandsOn(p, source)
             /\ source \in _usable_positions
             /\ Vacant(target)
             /\ target \in JumpTable(p)[source]
             /\ StandsOn(q, _captures[<<source, target>>])
             /\ piece[q].player = opponent[piece[p].player]
             /\ _player_pieces[piece[q].player] = {q}
             /\ Move(source, target))
            => winner(Contents)' = piece[p].player
       /\ (/\ _player_pieces[BLACK] # {}
           /\ _player_pieces[RED] # {}
           /\ winner(Contents)' # NoWinner)
            => /\ result'.op = "move"
               /\ result'.outcome = "ok"
               /\ result'.value \in _player_pieces[opponent[winner(Contents)']]
       /\ (winner(Contents) # NoWinner /\ result'.op = "move")
            => winner(Contents)' = winner(Contents)]_vars

\* C13: every piece with a location stands on a usable square of the board: a
\* square (x, y) with 0 <= x, y < dim and x congruent to (y + 1) mod 2.
C13_PiecesStandOnUsableSquares ==
    \A p \in DOMAIN piece :
        piece[p].location # None =>
            LET x == piece[p].location[1]
                y == piece[p].location[2]
            IN  /\ Len(piece[p].location) = 2
                /\ 0 <= x /\ x < dim
                /\ 0 <= y /\ y < dim
                /\ x % 2 = (y + 1) % 2

\* C13, its case: a placed piece, after a call that tried an unusable square.
C13_Witness ==
    /\ \E p \in DOMAIN piece : piece[p].location # None
    /\ result.op = "add_piece"
    /\ result.outcome # "ok"

\* The triples of start_positions() for one player.
TriplesOf(pl) ==
    {i \in 1..Len(start_positions) : start_positions[i][1] = pl}

\* C14: start_positions() holds exactly one BLACK triple for every usable
\* square of the first (dim-2)/2 rows, exactly one RED triple for every usable
\* square of the last (dim-2)/2 rows, and nothing else; no square is given to
\* both players; on the 8x8 board these are 12 BLACK triples in rows 0-2 and 12
\* RED triples in rows 5-7; and every add_piece of the set-up loop succeeds and
\* leaves its piece on the square of its triple.
C14_StartPositionsFillTheOuterRows ==
    LET rows == (dim - 2) \div 2
        sp == start_positions
        first == {q \in _usable_positions : q[2] < rows}
        last == {q \in _usable_positions : q[2] >= dim - rows}
        squareOf(i) == <<sp[i][2], sp[i][3]>>
    IN  /\ \A q \in first :
              Cardinality({i \in TriplesOf(BLACK) : squareOf(i) = q}) = 1
        /\ \A q \in last :
              Cardinality({i \in TriplesOf(RED) : squareOf(i) = q}) = 1
        /\ \A i \in 1..Len(sp) :
              \/ sp[i][1] = BLACK /\ squareOf(i) \in first
              \/ sp[i][1] = RED /\ squareOf(i) \in last
        /\ \A i \in TriplesOf(BLACK), j \in TriplesOf(RED) : squareOf(i) # squareOf(j)
        /\ dim = BOARD_DIM =>
              /\ Cardinality(TriplesOf(BLACK)) = 12
              /\ Cardinality(TriplesOf(RED)) = 12
              /\ \A i \in TriplesOf(BLACK) : sp[i][3] \in 0..2
              /\ \A i \in TriplesOf(RED) : sp[i][3] \in 5..7
        /\ result.op = "add_piece" => result.outcome = "ok"
        /\ \A i \in 1..NumPlaced :
              /\ <<sp[i][1], i>> \in _player_pieces[sp[i][1]]
              /\ piece[<<sp[i][1], i>>].location = squareOf(i)

\* The 8x8 board with all 24 pieces of start_positions() placed.
C14_Witness ==
    /\ dim = BOARD_DIM
    /\ NumPlaced = Len(start_positions)
    /\ NumPlaced = 24
    /\ result.op = "add_piece"
    /\ result.outcome = "ok"

\* The squares the scenario puts its pieces on and moves them to.
ScenarioDiagonal == {<<1, 1>>, <<2, 2>>, <<3, 3>>}

C16_FourDistinctErrorKinds ==
    \A bad \in InvalidPlayers, p \in PieceIds, s \in _usable_positions,
       u \in Locations(dim) \ _usable_positions :
        LET invalidPlayer == Piece__init__(Contents, bad).outcome
            invalidPiece == add_piece(Contents, NotAPiece, s).outcome
            unusable == add_piece(Contents, p, u).outcome
            invalidMove == move(Contents, u, s).outcome
            kinds == <<invalidPlayer, invalidPiece, unusable, invalidMove>>
        IN  /\ \A i \in 1..4 : kinds[i] # "ok"
            /\ \A i \in 1..4, j \in 1..4 : i # j => kinds[i] # kinds[j]
            /\ unusable = "InvalidPlacementException"
            /\ invalidMove = "InvalidMoveException"
            /\ \A q \in LivePieces \ {p} :
                  add_piece(Contents, p, piece[q].location).outcome
                      = "InvalidPlacementException"

\* A square of the board that is usable: 0 <= x, y < dim and x = (y+1) mod 2.
IsUsable(q) ==
    /\ q[1] \in 0..(dim - 1)
    /\ q[2] \in 0..(dim - 1)
    /\ q[1] % 2 = (q[2] + 1) % 2

\* The forward row direction of a player.
Forward(p) == IF p = BLACK THEN 1 ELSE -1

\* C17: for every usable square s = (x, y) and both players p, moves[p][s] is
\* exactly the set of usable squares among (x-1, y+d) and (x+1, y+d), d = +1
\* for BLACK and -1 for RED; it is empty when s is in p's last row.
C17_MovesAreOneDiagonalStepForward ==
    \A p \in players :
        /\ DOMAIN _moves[p] = {q \in Squares(dim) : IsUsable(q)}
        /\ \A s \in DOMAIN _moves[p] :
              /\ _moves[p][s] =
                    {t \in {<<s[1] - 1, s[2] + Forward(p)>>, <<s[1] + 1, s[2] + Forward(p)>>} :
                        IsUsable(t)}
              /\ s[2] = (IF p = BLACK THEN dim - 1 ELSE 0) => _moves[p][s] = {}

\* The 8x8 board, set up, with a square of two moves, a square of one move and
\* a square of none.
C17_Witness ==
    /\ dim = BOARD_DIM
    /\ NumPlaced = Len(start_positions)
    /\ \E a \in _usable_positions, b \in _usable_positions, c \in _usable_positions :
          /\ Cardinality(_moves[BLACK][a]) = 2
          /\ Cardinality(_moves[BLACK][b]) = 1
          /\ _moves[BLACK][c] = {}

\* C18: for every usable square s = (x, y) and both players p, jumps[p][s] is
\* exactly the set of usable squares among (x-2, y+2d) and (x+2, y+2d); for
\* every such pair (s, t) captures[(s, t)] is the midpoint of s and t, a usable
\* square; captures has no other entry.
C18_CapturesAreTheMidpointsOfJumps ==
    /\ \A p \in players :
          /\ DOMAIN _jumps[p] = {q \in Squares(dim) : IsUsable(q)}
          /\ \A s \in DOMAIN _jumps[p] :
                _jumps[p][s] =
                    {t \in {<<s[1] - 2, s[2] + 2 * Forward(p)>>,
                            <<s[1] + 2, s[2] + 2 * Forward(p)>>} : IsUsable(t)}
    /\ DOMAIN _captures =
          {<<s, t>> \in _usable_positions \X _usable_positions :
              \E p \in players : t \in _jumps[p][s]}
    /\ \A k \in DOMAIN _captures :
          /\ _captures[k] = <<(k[1][1] + k[2][1]) \div 2, (k[1][2] + k[2][2]) \div 2>>
          /\ 2 * _captures[k][1] = k[1][1] + k[2][1]
          /\ 2 * _captures[k][2] = k[1][2] + k[2][2]
          /\ IsUsable(_captures[k])

\* The 8x8 board, set up, with a square that has jumps in both directions.
C18_Witness ==
    /\ dim = BOARD_DIM
    /\ NumPlaced = Len(start_positions)
    /\ \E s \in _usable_positions :
          /\ Cardinality(_jumps[BLACK][s]) = 2
          /\ Cardinality(_jumps[RED][s]) = 2
          /\ \A t \in _jumps[BLACK][s] \cup _jumps[RED][s] : <<s, t>> \in DOMAIN _captures

\* C19: at every usable square the king move set is moves[BLACK][s] union
\* moves[RED][s] and the king jump set is jumps[BLACK][s] union jumps[RED][s];
\* no add_piece or move modifies any table.
C19_KingTablesAreUnionsAndTablesAreFixed ==
    /\ [](/\ DOMAIN _king_moves = _usable_positions
          /\ DOMAIN _king_jumps = _usable_positions
          /\ \A s \in _usable_positions :
                /\ _king_moves[s] = _moves[BLACK][s] \cup _moves[RED][s]
                /\ _king_jumps[s] = _jumps[BLACK][s] \cup _jumps[RED][s])
    /\ [][UNCHANGED <<_usable_positions, _moves, _jumps, _captures,
                      _king_moves, _king_jumps>>]_vars

\* The 8x8 board after pieces were placed and a move was asked for, with a
\* square whose king tables hold all four directions.
C19_Witness ==
    /\ dim = BOARD_DIM
    /\ LivePieces # {}
    /\ result.op = "move"
    /\ \E s \in _usable_positions :
          /\ Cardinality(_king_moves[s]) = 4
          /\ Cardinality(_king_jumps[s]) = 4

IsValidDrop(p, t) ==
    LET s == piece[p].location
        standingOn(u) == {q \in LivePieces : piece[q].location = u}
    IN  /\ standingOn(t) = {}
        /\ \/ t \in MoveTable(p)[s]
           \/ /\ t \in JumpTable(p)[s]
              /\ \E q \in standingOn(_captures[<<s, t>>]) :
                    piece[q].player = opponent[piece[p].player]

\* C21: in the event loop every drop of the selected piece on a square that is
\* not a valid move for it is absorbed: the board is unchanged, the piece is
\* back in the stationary set at its previous location, the selection is
\* cleared, and the loop is still running for the next event.
C21_InvalidDropIsAbsorbed ==
    [][\A t \in _usable_positions :
          /\ piece_selected # None
          /\ ~IsValidDrop(piece_selected, t)
          /\ DropPiece(t)
          => /\ UNCHANGED contents
             /\ piece_selected \in pieces'
             /\ rect'[piece_selected] = piece[piece_selected].location
             /\ piece_selected' = None
             /\ space_selected' = None
             /\ loop' = "running"]_vars

============================================================================
